---- MODULE Spec2Model ----
(***************************************************************************)
(* Model of graphene.foundation.js: the Region parameter tree, the Node    *)
(* entity, the evolveNode step and the generation loop of the driver.      *)
(*                                                                         *)
(* Numbers.  JavaScript doubles are modelled in fixed point:               *)
(*   - scalars (hue, rotation, stagnation, learningRate, growthPotential,  *)
(*     entropy, sandbox, kappa, health, draws of Math.random) in           *)
(*     thousandths (One = 1000);                                           *)
(*   - coherence in thousandths too, so its range [0,100] is 0..100000;    *)
(*   - positions, velocities, accelerations and forces in 1/10000 of a     *)
(*     world unit (PosOne = 10000);                                        *)
(*   - divisions truncate toward zero.                                     *)
(* NaN and undefined are two reserved values outside every range used.     *)
(* Objects live in arenas: regions by id, arrays by reference, so that two *)
(* node objects sharing one array (a shallow copy) is a state of the model.*)
(***************************************************************************)
EXTENDS Integers, Sequences, FiniteSets, TLC

VARIABLES regions, arrays, nodes, next, done, gen, steps, pc, contribs, rng, genStart, last

vars == <<regions, arrays, nodes, next, done, gen, steps, pc, contribs, rng, genStart, last>>

(* ---------------- bounds of the model ---------------- *)
MaxRegions == 3
MaxG == 2
ExtraSteps == 2

(* ---------------- numeric representation ---------------- *)
One == 1000
PosOne == 10000
NaN == 0 - 2000000000
Undefined == 0 - 2000000001
Null == "null"

IsNaN(x) == x = NaN
Abs(x) == IF x < 0 THEN -x ELSE x
Min2(a, b) == IF a < b THEN a ELSE b
Max2(a, b) == IF a > b THEN a ELSE b

\* a / b on doubles, truncated toward zero (b > 0)
TDiv(a, b) == IF a >= 0 THEN a \div b ELSE -((-a) \div b)

\* JavaScript a % b: the remainder has the sign of the dividend (b > 0)
JsRem(a, b) == IF a >= 0 THEN a % b ELSE -((-a) % b)

\* a ?? b
Coalesce(a, b) == IF a = Undefined THEN b ELSE a

RECURSIVE ISqrtFrom(_, _)
ISqrtFrom(n, r) == IF r <= n \div r THEN r ELSE ISqrtFrom(n, (r + n \div r) \div 2)
\* floor of the square root (Newton iteration from above)
ISqrt(n) == IF n <= 0 THEN 0 ELSE IF n < 4 THEN 1 ELSE ISqrtFrom(n, n \div 2)

(* ---------------- vector helpers (lines 17-21) ---------------- *)
Vec(x, y, z) == [x |-> x, y |-> y, z |-> z]
Zero3 == Vec(0, 0, 0)
vadd(a, b) == Vec(a.x + b.x, a.y + b.y, a.z + b.z)
vsub(a, b) == Vec(a.x - b.x, a.y - b.y, a.z - b.z)
\* vscale(v, s) with the scalar s = num/den
vscale(v, num, den) == Vec(TDiv(v.x * num, den), TDiv(v.y * num, den), TDiv(v.z * num, den))

\* Math.hypot(x, y, z): components are scaled down before squaring when the
\* squares would leave the integer range, as hypot scales to avoid overflow
Hypot3(x, y, z) ==
  LET m == Max2(Abs(x), Max2(Abs(y), Abs(z)))
      k == m \div 26000 + 1
      a == TDiv(x, k)
      b == TDiv(y, k)
      c == TDiv(z, k)
  IN k * ISqrt(a * a + b * b + c * c)

vlen(v) == Hypot3(v.x, v.y, v.z)

\* vnorm(v): v scaled by 1/(vlen(v)||1); the unit vector is in thousandths
vnorm(v) ==
  LET l == vlen(v)
      k == l \div 1000000 + 1
      lk == Max2(1, TDiv(l, k))
  IN IF l = 0 THEN Zero3
     ELSE Vec(TDiv(TDiv(v.x, k) * One, lk), TDiv(TDiv(v.y, k) * One, lk),
              TDiv(TDiv(v.z, k) * One, lk))

(* ---------------- Math.cos / Math.sin, in thousandths of a radian ------- *)
Pi == 3142
TwoPi == 6283
\* cos on [0, pi/2]: (pi^2 - 4x^2) / (pi^2 + x^2)
CosQuarter(x) == TDiv(TDiv(9869604 - 4 * x * x, 10) * One, TDiv(9869604 + x * x, 10))
Cos(x) ==
  LET r == x % TwoPi
      h == IF r > Pi THEN TwoPi - r ELSE r
  IN IF h <= 1571 THEN CosQuarter(h) ELSE -CosQuarter(Max2(0, Pi - h))
Sin(x) == Cos(x - 1571)

(* ---------------- utilities (lines 26-29) ---------------- *)
clamp(v, a, b) == Max2(a, Min2(b, v))

RECURSIVE sum(_)
sum(arr) == IF arr = <<>> THEN 0 ELSE arr[1] + sum(Tail(arr))

avg(arr) == IF Len(arr) > 0 THEN TDiv(sum(arr), Len(arr)) ELSE 0

(* ---------------- Region ---------------- *)

\* parent?.kappa * 0.92 : undefined * 0.92 and NaN * 0.92 are NaN
ParentKappaScaled(arena, parent) ==
  LET pk == IF parent = Null THEN Undefined ELSE arena[parent].kappa
  IN IF pk = Undefined \/ IsNaN(pk) THEN NaN ELSE TDiv(pk * 92, 100)

\* params.kappa ?? (parent?.kappa*0.92 ?? 0.1)
DefaultKappa(arena, parent, params) ==
  Coalesce(params.kappa, Coalesce(ParentKappaScaled(arena, parent), 100))

\* an optional object (fieldCenter) is <<>> when absent and <<v>> when given
NoParams == [kappa |-> Undefined, noise |-> Undefined, fieldCenter |-> <<>>,
             fieldStrength |-> Undefined]

\* new Region(id, parent, params): the arena after the constructor ran
RegionCtor(arena, id, parent, params) ==
  LET r == [ id |-> id, parent |-> parent, children |-> {},
             kappa |-> DefaultKappa(arena, parent, params),
             noise |-> Coalesce(params.noise,
                         Coalesce(IF parent = Null THEN Undefined ELSE arena[parent].noise, 0)),
             observers |-> {},
             generation |-> IF parent # Null THEN arena[parent].generation + 1 ELSE 0,
             fieldCenter |-> IF params.fieldCenter = <<>> THEN Zero3 ELSE params.fieldCenter[1],
             fieldStrength |-> Coalesce(params.fieldStrength, 50),
             meanTheta |-> 0 ]
      withChild == IF parent # Null
                     THEN [arena EXCEPT ![parent].children = @ \cup {id}]
                     ELSE arena
  IN withChild @@ (id :> r)

\* Math.pow(0.88, d) in 1/10000
RECURSIVE Pow88(_)
Pow88(d) == IF d = 0 THEN 10000 ELSE TDiv(Pow88(d - 1) * 88, 100)

\* the weight of region cur in effectiveKappa(g)
KappaWeightRootFull(arena, cur, g) == Pow88(Max2(0, g - arena[cur].generation))
KappaWeight(arena, cur, g) ==
  IF arena[cur].parent # Null
    THEN Pow88(Max2(0, g - arena[cur].generation))
    ELSE 10000

\* the while loop of effectiveKappa: <<tot, wsum>> over cur, cur.parent, ...
RECURSIVE KappaWalk(_, _, _, _, _)
KappaWalk(arena, cur, g, tot, wsum) ==
  IF cur = Null THEN <<tot, wsum>>
  ELSE LET w == KappaWeight(arena, cur, g)
           k == arena[cur].kappa
           t == IF IsNaN(tot) \/ IsNaN(k) THEN NaN ELSE tot + w * k
       IN KappaWalk(arena, arena[cur].parent, g, t, wsum + w)

effectiveKappa(arena, id, g) ==
  LET tw == KappaWalk(arena, id, g, 0, 0)
  IN IF tw[2] # 0
       THEN (IF IsNaN(tw[1]) THEN NaN ELSE TDiv(tw[1], tw[2]))
       ELSE arena[id].kappa

\* base(pos) of computeField for one region: the pull toward its fieldCenter
FieldBase(arena, id, pos) ==
  LET toC == vsub(arena[id].fieldCenter, pos)
      d10 == TDiv(vlen(toC), 1000)
      mag == TDiv(arena[id].fieldStrength * One, One + TDiv(d10 * d10, 10))
  IN vscale(vnorm(toC), mag, One)

\* computeField()(pos): the region's pull plus, recursively, its parent's
RECURSIVE computeField(_, _, _)
computeField(arena, id, pos) ==
  IF arena[id].parent = Null
    THEN FieldBase(arena, id, pos)
    ELSE vadd(FieldBase(arena, id, pos), computeField(arena, arena[id].parent, pos))

\* the value of this.meanTheta that allowedHueBand stores
CachedMeanTheta(old, meanTheta) == meanTheta

\* allowedHueBand(thetaVec, coh): the band, and the arena with meanTheta cached
allowedHueBand(arena, id, thetaVec, coh) ==
  LET meanTheta == avg(thetaVec)
      spread == clamp(200 + TDiv((One - clamp(TDiv(coh, 100), 0, One)) * 800, One), 50, 1500)
      center == TDiv(JsRem(JsRem(meanTheta, TwoPi) + TwoPi, TwoPi) * One, TwoPi)
      ek == effectiveKappa(arena, id, arena[id].generation)
      hw == IF IsNaN(ek) THEN NaN ELSE TDiv(spread * One, One + ek * 8)
  IN [ band |-> [ L |-> IF IsNaN(hw) THEN NaN ELSE clamp(center - hw, 0, One),
                  U |-> IF IsNaN(hw) THEN NaN ELSE clamp(center + hw, 0, One),
                  center |-> center, halfWidth |-> hw ],
       arena |-> [arena EXCEPT ![id].meanTheta = CachedMeanTheta(@, meanTheta)] ]

(* ---------------- Node ---------------- *)
\* sha256Hex(JSON.stringify({...})): the token stands for the payload hashed
\* (the wall-clock field t is left out)
SnapshotToken(n) ==
  [ id |-> n.id, hue |-> n.hue, rotation |-> n.rotation, coherence |-> n.coherence,
    entropy |-> n.entropy, sandbox |-> n.sandbox, region |-> n.region, pos |-> n.pos ]

\* opts: a number is Undefined when absent; an object or boolean is <<>> when
\* absent and <<v>> when given.  draws are the constructor's Math.random()
\* values in call order.
NoOpts == [ hue |-> Undefined, rotation |-> Undefined, coherence |-> Undefined,
            entropy |-> Undefined, sandbox |-> Undefined, pos |-> <<>>, vel |-> <<>>,
            acc |-> <<>>, mass |-> Undefined, range |-> Undefined, fov |-> Undefined,
            incubating |-> <<>>, region |-> <<>> ]

OptObj(o, dflt) == IF o = <<>> THEN dflt ELSE o[1]

\* new Node(id, type, angles, opts): the node object; refH and refA are the
\* references of its two fresh arrays incubationHistory and history
NodeCtor(id, type, angles, opts, draws, refH, refA) ==
  [ proto |-> "Node", id |-> id, type |-> type, angles |-> angles, sides |-> Len(angles),
    hue |-> Coalesce(opts.hue, draws[1]),
    rotation |-> Coalesce(opts.rotation, TDiv(draws[2] * TwoPi, One)),
    coherence |-> Coalesce(opts.coherence, 50000),
    entropy |-> Coalesce(opts.entropy, 1000),
    sandbox |-> Coalesce(opts.sandbox, 1000),
    stagnation |-> 0, learningRate |-> 0, growthPotential |-> 0,
    pos |-> OptObj(opts.pos, Vec((draws[3] - 500) * 400, (draws[4] - 500) * 400, 0)),
    vel |-> OptObj(opts.vel, Zero3),
    acc |-> OptObj(opts.acc, Zero3),
    mass |-> Coalesce(opts.mass, 1000),
    range |-> Coalesce(opts.range, 300000),
    fov |-> Coalesce(opts.fov, 2827),
    incubating |-> OptObj(opts.incubating, TRUE),
    incubationHistory |-> refH,
    incubationScore |-> 0,
    children |-> <<>>, observer |-> FALSE, region |-> OptObj(opts.region, Null),
    awareness |-> [ velocity |-> 0, alignmentScore |-> 0, hueConvergence |-> 0,
                    gazeIntensity |-> 0, isHappyChallenged |-> FALSE ],
    history |-> refA ]

\* the arrays of a freshly constructed node: incubationHistory = [] and
\* history = [token] after this.snapshot()
NodeCtorArrays(arrs, node) ==
  arrs @@ (node.incubationHistory :> <<>>) @@ (node.history :> <<SnapshotToken(node)>>)

(* ---------------- evolveNode (lines 108-235) ---------------- *)
HistoryCap == 40

RECURSIVE MapField(_, _)
\* xs.map(x => x[f]) for the three fields the step reads from neighbors
MapField(xs, f) ==
  IF xs = <<>> THEN <<>>
  ELSE << CASE f = "rotation" -> xs[1].rotation
            [] f = "coherence" -> xs[1].coherence
            [] OTHER -> xs[1].pos >> \o MapField(Tail(xs), f)

RECURSIVE FilterInRange(_, _, _)
\* neighbors.filter(x => vlen(vsub(pos, x.pos)) < range)
FilterInRange(xs, pos, range) ==
  IF xs = <<>> THEN <<>>
  ELSE (IF vlen(vsub(pos, xs[1].pos)) < range THEN <<xs[1]>> ELSE <<>>)
         \o FilterInRange(Tail(xs), pos, range)

RECURSIVE VSum(_)
VSum(ps) == IF ps = <<>> THEN Zero3 ELSE vadd(ps[1], VSum(Tail(ps)))

RECURSIVE Repulsion(_, _)
\* the for loop of lines 151-155: the push away from every neighbor closer than 6
Repulsion(pos, others) ==
  IF others = <<>> THEN Zero3
  ELSE LET dvec == vsub(pos, others[1].pos)
           d == vlen(dvec)
           push == IF d < 6 * PosOne
                     THEN vscale(vnorm(dvec), TDiv(2 * (6 * PosOne - d), 100), One)
                     ELSE Zero3
       IN vadd(push, Repulsion(pos, Tail(others)))

\* allNodes.get(oid): <<obs>> or <<>>
Lookup(allNodes, oid) ==
  IF \E k \in 1..Len(allNodes) : allNodes[k].id = oid
    THEN <<allNodes[CHOOSE k \in 1..Len(allNodes) : allNodes[k].id = oid]>>
    ELSE <<>>

\* what one observer adds to gaze (lines 196-207); the test angle <= fov/2 on
\* angle = acos(dot) in [0, pi] is taken as dot >= cos(fov/2)
GazeOf(obsOpt, pos) ==
  IF obsOpt = <<>> THEN 0
  ELSE LET obs == obsOpt[1]
           vec == vsub(pos, obs.pos)
           dist == vlen(vec)
           dir == vnorm(vec)
           dot == clamp(TDiv(Cos(obs.rotation) * dir.x + Sin(obs.rotation) * dir.y, One), -One, One)
           half == TDiv(obs.fov, 2)
           inCone == IF half >= Pi THEN TRUE ELSE IF half < 0 THEN FALSE ELSE dot >= Cos(half)
           prox == One - clamp(TDiv(dist, TDiv(obs.range, One)), 0, One)
       IN IF obs.coherence <= 80000 THEN 0
          ELSE IF dist > obs.range THEN 0
          ELSE IF inCone THEN TDiv(TDiv(obs.coherence, 100) * prox, One)
          ELSE 0

RECURSIVE GazeSum(_, _, _)
GazeSum(oids, allNodes, pos) ==
  IF oids = {} THEN 0
  ELSE LET oid == CHOOSE o \in oids : TRUE
       IN GazeOf(Lookup(allNodes, oid), pos) + GazeSum(oids \ {oid}, allNodes, pos)

\* a statePrev that takes hue from nowhere (0) instead of from prev
StatePrevWithoutHue(prev, n) ==
  <<0, prev.rotation>> \o prev.angles \o <<TDiv(prev.pos.x, 10), TDiv(prev.pos.y, 10)>>

\* statePrev (line 115), all components in thousandths
StatePrev(prev, n) ==
  <<prev.hue, prev.rotation>> \o prev.angles \o <<TDiv(prev.pos.x, 10), TDiv(prev.pos.y, 10)>>

RECURSIVE SumSquares(_)
SumSquares(xs) == IF xs = <<>> THEN 0 ELSE xs[1] * xs[1] + SumSquares(Tail(xs))

\* vecDiff(a, b) (line 29)
vecDiff(a, b) == [k \in 1..Len(a) |-> a[k] - (IF k <= Len(b) THEN b[k] ELSE 0)]

\* (a push that never evicts)
PushHealthNoShift(arr, health) == Append(arr, health)

\* the incubationHistory array after push(health) and the shift on overflow
PushHealth(arr, health) ==
  LET pushed == Append(arr, health)
  IN IF Len(pushed) > HistoryCap THEN Tail(pushed) ELSE pushed

\* line 221: the value of incubating after the transition test
\* (a step that assigns the flag from the test instead of only clearing it)
IncubationRecomputed(inc, score, gp) == ~(score > 850 /\ gp > One)
IncubationTransition(inc, score, gp) ==
  IF inc /\ score > 850 /\ gp > One THEN FALSE ELSE inc

\* Each statement group of evolveNode is one operator below: it takes the
\* values computed so far (the record c) and adds what it assigns.

\* line 109-110: the context destructured, and let n = {...node}: own fields
\* copied, arrays shared, the methods of Node.prototype lost
\* ctx: [neighbors, spatialNeighbors (<<>> or <<seq>>), regionObj, contributions, allNodes]
\* draws: the values Math.random() returns at lines 173, 181, 182 and 233
StepCopy(node, ctx, draws, regs, arrs) ==
  [ node |-> node, n0 |-> [node EXCEPT !.proto = "Object"], neighbors |-> ctx.neighbors,
    spatialNeighbors |-> ctx.spatialNeighbors, regionObj |-> ctx.regionObj,
    contributions |-> ctx.contributions, allNodes |-> ctx.allNodes,
    draws |-> draws, regs |-> regs, arrs |-> arrs ]

\* lines 113-116: velocity
StepVelocity(c) ==
  LET prev == IF Len(c.arrs[c.n0.history]) > 1 THEN c.node ELSE c.n0
      stateNow == <<c.n0.hue, c.n0.rotation>> \o c.n0.angles
                    \o <<TDiv(c.n0.pos.x, 10), TDiv(c.n0.pos.y, 10)>>
  IN [velocity |-> ISqrt(SumSquares(vecDiff(stateNow, StatePrev(prev, c.n0))))] @@ c

\* lines 117-118: stagnation and learningRate
StepStagnation(c) ==
  [ stagnation |-> clamp(c.n0.stagnation + (IF c.velocity < 1 THEN 50 ELSE -40), 0, One),
    learningRate |-> TDiv(c.velocity * (IF Len(c.contributions) > 0
                                          THEN TDiv(sum(c.contributions) * 100, Len(c.contributions))
                                          ELSE 300), One) ] @@ c

\* line 121: true entropy
StepEntropy(c) ==
  [ entropy1 |-> clamp(TDiv(TDiv((One - TDiv(c.n0.coherence, 100)) * (One + c.stagnation * 2), One)
                              * (One - c.learningRate), One), 100, 1000 * One) ] @@ c

\* lines 124-130: growth potential and geometry alignment
StepGrowth(c) ==
  [ growthPotential |-> TDiv(TDiv(c.entropy1 * c.learningRate, One) * One, c.stagnation + 100),
    rotation1 |-> IF Len(c.neighbors) > 0
                    THEN c.n0.rotation
                           + TDiv(4 * (avg(MapField(c.neighbors, "rotation")) - c.n0.rotation), 100)
                    ELSE c.n0.rotation ] @@ c

\* lines 133-137: the hue band, and the region arena after allowedHueBand
StepBand(c) ==
  [ hb |-> IF c.regionObj # Null
             THEN allowedHueBand(c.regs, c.regionObj,
                                 MapField(c.neighbors, "rotation") \o <<c.rotation1>>,
                                 avg(MapField(c.neighbors, "coherence") \o <<c.n0.coherence>>))
             ELSE [band |-> [center |-> c.n0.hue, halfWidth |-> 500], arena |-> c.regs] ] @@ c

\* lines 138-139: hue moves toward the band center
StepHue(c) ==
  [ band |-> c.hb.band,
    regs1 |-> c.hb.arena,
    hue1 |-> IF c.regionObj # Null
               THEN JsRem(c.n0.hue
                          + TDiv(18 * (JsRem(c.hb.band.center - c.n0.hue + 1500, One) - 500), One)
                          + One, One)
               ELSE c.n0.hue ] @@ c

\* lines 146-156: neighbor attraction / repulsion
StepNeighborForce(c) ==
  LET spatialNbr == IF c.spatialNeighbors # <<>>
                      THEN c.spatialNeighbors[1]
                      ELSE FilterInRange(c.neighbors, c.n0.pos, c.n0.range)
  IN [ forceNbr |->
         IF Len(spatialNbr) > 0
           THEN vadd(vscale(vnorm(vsub(vscale(VSum(MapField(spatialNbr, "pos")), 1, Len(spatialNbr)),
                                       c.n0.pos)),
                            TDiv(20 * TDiv(c.n0.coherence, 100), One), One),
                     Repulsion(c.n0.pos, spatialNbr))
           ELSE Zero3 ] @@ c

\* lines 159-162 and the test of line 166
StepField(c) ==
  [ forceField |-> IF c.regionObj # Null
                     THEN vadd(c.forceNbr, computeField(c.regs1, c.regionObj, c.n0.pos))
                     ELSE c.forceNbr,
    horizon |-> /\ c.n0.coherence > 75000
                /\ c.growthPotential > 1200
                /\ c.regionObj # Null
                /\ c.regs1[c.regionObj].parent # Null ] @@ c

\* lines 167-168: the parent's band, and the arena after its allowedHueBand
StepGhostBand(c) ==
  [ gb |-> IF c.horizon
             THEN allowedHueBand(c.regs1, c.regs1[c.regionObj].parent, <<>>, c.n0.coherence)
             ELSE [band |-> c.band, arena |-> c.regs1] ] @@ c

\* lines 169-175: horizon pull and breakthrough jitter
StepHorizon(c) ==
  LET breakthrough == c.n0.coherence > 92000 /\ c.stagnation > 800
      horizonTheta0 == IF c.horizon
                         THEN TDiv(8 * (c.gb.arena[c.regs1[c.regionObj].parent].meanTheta
                                          - c.rotation1), One)
                         ELSE 0
  IN [ regs2 |-> c.gb.arena,
       breakthrough |-> breakthrough,
       horizonTheta |-> IF breakthrough
                          THEN horizonTheta0 + TDiv((c.draws.jit - 500) * 2, 10)
                          ELSE horizonTheta0,
       horizonHue |-> IF c.horizon THEN TDiv(6 * (c.gb.band.center - c.hue1), One) ELSE 0,
       entropy |-> IF breakthrough THEN c.entropy1 + 100 ELSE c.entropy1 ] @@ c

\* lines 176-186: rotation, hue, motion-coupled jitter, acc and vel
StepForce(c) ==
  LET jitter == One + TDiv((One - TDiv(c.n0.coherence, 100)) * 15, 10)
      force == Vec(c.forceField.x + TDiv((c.draws.fx - 500) * 5 * jitter, One * One),
                   c.forceField.y + TDiv((c.draws.fy - 500) * 5 * jitter, One * One),
                   c.forceField.z)
  IN [ rotation |-> c.rotation1 + c.horizonTheta,
       hue |-> JsRem(c.hue1 + c.horizonHue + One, One),
       acc |-> vscale(force, One, c.n0.mass) ] @@ c

\* lines 186-187: integrate
StepIntegrate(c) ==
  LET vel == vadd(vscale(c.n0.vel, 98, 100), c.acc)
  IN [vel |-> vel, pos1 |-> vadd(c.n0.pos, vel)] @@ c

\* line 190: world bounds
StepBounds(c) ==
  LET outside == vlen(c.pos1) > 500 * PosOne
  IN [ outside |-> outside,
       pos |-> IF outside THEN vscale(vnorm(c.pos1), 4750, 1) ELSE c.pos1 ] @@ c

\* lines 193-212: observer gaze, then coherence
StepCoherence(c) ==
  [ gaze |-> IF c.regionObj # Null
               THEN GazeSum(c.regs2[c.regionObj].observers, c.allNodes, c.pos)
               ELSE 0,
    coherence |-> clamp(TDiv(TDiv(10 * sum(c.contributions) * One * One, c.entropy + One)
                               * (One + TDiv(c.growthPotential, 100)), One), 0, 100 * One) ] @@ c

\* lines 213-217: sandbox, observer flag and health
StepSandbox(c) ==
  [ sandbox1 |-> IF c.coherence > 80000
                   THEN Min2(10 * One, TDiv(c.n0.sandbox * 1006, One))
                   ELSE Max2(300, TDiv(c.n0.sandbox * 994, One)),
    observer |-> c.coherence > 85000 /\ Len(c.n0.children) >= 3,
    health |-> clamp(TDiv(TDiv(TDiv(c.coherence, 100) * (One - TDiv(c.entropy, 10)), One)
                            * (One - c.stagnation), One), 0, One) ] @@ c

\* lines 218-219: push on the array n shares with node
StepHistory(c) ==
  [hist |-> PushHealth(c.arrs[c.n0.incubationHistory], c.health)] @@ c

\* lines 220-221: incubationScore and the transition out of incubation
StepIncubation(c) ==
  LET score == avg(c.hist)
  IN [ arrs1 |-> [c.arrs EXCEPT ![c.n0.incubationHistory] = c.hist],
       incubationScore |-> score,
       incubating |-> IncubationTransition(c.n0.incubating, score, c.growthPotential) ] @@ c

\* lines 222-231: the sandbox cap while incubating, awareness, and the object n
StepAwareness(c) ==
  [ n |-> [c.n0 EXCEPT
             !.stagnation = c.stagnation, !.learningRate = c.learningRate,
             !.entropy = c.entropy, !.growthPotential = c.growthPotential,
             !.rotation = c.rotation, !.hue = c.hue, !.acc = c.acc, !.vel = c.vel,
             !.pos = c.pos, !.coherence = c.coherence,
             !.sandbox = IF c.incubating THEN Min2(c.sandbox1, 1200) ELSE c.sandbox1,
             !.observer = c.observer, !.incubationScore = c.incubationScore,
             !.incubating = c.incubating,
             !.awareness =
                [ velocity |-> c.velocity,
                  alignmentScore |-> TDiv(c.coherence, 100),
                  hueConvergence |-> IF ~IsNaN(c.band.halfWidth) /\ c.band.halfWidth > 0
                                       THEN One - TDiv(Abs(c.hue - c.band.center) * One,
                                                       c.band.halfWidth)
                                       ELSE 0,
                  gazeIntensity |-> c.gaze,
                  isHappyChallenged |-> /\ c.coherence > 65000
                                        /\ c.growthPotential > One
                                        /\ c.stagnation < 600
                                        /\ (c.horizonTheta # 0 \/ c.coherence > 80000) ]] ] @@ c

\* line 233: if (Math.random() < 0.02) n.snapshot().  snapshot is a method of
\* Node.prototype: on an object that does not have it the call throws
StepCheckpoint(c) ==
  LET checkpoint == c.draws.chk < 20
      threw == checkpoint /\ c.n.proto # "Node"
  IN [ n |-> c.n, regions |-> c.regs2,
       arrays |-> IF checkpoint /\ ~threw
                    THEN [c.arrs1 EXCEPT ![c.n.history] = Append(@, SnapshotToken(c.n))]
                    ELSE c.arrs1,
       threw |-> threw, velocity |-> c.velocity, horizon |-> c.horizon,
       breakthrough |-> c.breakthrough, outside |-> c.outside,
       checkpoint |-> checkpoint, health |-> c.health ]

\* evolveNode(node, ctx): the returned object n, the arenas after the call and
\* whether the call threw
evolveNode(node, ctx, draws, regs, arrs) ==
  StepCheckpoint(StepAwareness(StepIncubation(StepHistory(StepSandbox(StepCoherence(StepBounds(
  StepIntegrate(StepForce(StepHorizon(StepGhostBand(StepField(StepNeighborForce(StepHue(
  StepBand(StepGrowth(StepEntropy(StepStagnation(StepVelocity(
    StepCopy(node, ctx, draws, regs, arrs)
  )))))))))))))))))))

(* ---------------- the driver (demo, lines 240-274) ---------------- *)
\* the region trees the driver builds before the loop
TreeDemo ==
  LET a == RegionCtor(<<>>, "root", Null, [NoParams EXCEPT !.fieldStrength = 80])
      b == RegionCtor(a, "1", "root",
                      [NoParams EXCEPT !.kappa = 120, !.fieldCenter = <<Vec(80 * PosOne, 0, 0)>>])
  IN RegionCtor(b, "2", "root",
                [NoParams EXCEPT !.kappa = 350, !.fieldCenter = <<Vec(-80 * PosOne, 0, 0)>>])

\* a tree of depth two with a numeric kappa at the root and node n0 registered
\* as an observer of region "1"
TreeDeep ==
  LET a == RegionCtor(<<>>, "root", Null, [NoParams EXCEPT !.kappa = 200])
      b == RegionCtor(a, "1", "root", NoParams)
      c == RegionCtor(b, "2", "1", [NoParams EXCEPT !.kappa = 350])
  IN [c EXCEPT !["1"].observers = {"n0"}]

Trees == {TreeDemo, TreeDeep}

\* the options the driver constructs node n0 and node n1 with
OptsDemo(r) == [NoOpts EXCEPT !.region = <<r>>]
OptsHigh == [NoOpts EXCEPT !.region = <<"1">>, !.coherence = 96000, !.hue = 250,
                           !.rotation = 1000, !.pos = <<Vec(3 * PosOne, 0, 0)>>]
OptsWild == [NoOpts EXCEPT !.hue = -5500, !.rotation = 2000, !.sandbox = 100 * One,
                           !.incubating = <<FALSE>>, !.pos = <<Vec(0, 4 * PosOne, 0)>>]
OptsFar == [NoOpts EXCEPT !.region = <<"1">>, !.hue = 900, !.rotation = -3000,
                          !.pos = <<Vec(498 * PosOne, 0, 0)>>, !.vel = <<Vec(30 * PosOne, 0, 0)>>,
                          !.incubating = <<FALSE>>, !.sandbox = 9990]
Opts0 == {OptsDemo("1"), OptsHigh, OptsWild}
Opts1 == {OptsDemo("2"), OptsDemo("1"), OptsFar}

\* the streams Math.random() can follow: value number k is (b + a*k) mod 1
Streams == {[a |-> 0, b |-> 500], [a |-> 250, b |-> 100], [a |-> 995, b |-> 70]}

\* Math.random(): draw number k of node i in generation g (0 is the constructor)
MathRandom(s, i, g, k) == (s.b + s.a * (4 * g + k) + 333 * i) % One

NodeIds == <<"n0", "n1">>

\* contributions: [15, 10] in region "1" and [2] in another region as in the
\* demo; a call without a region is given none (the default [] of line 109)
ContributionsOf(node) ==
  IF node.region = "1" THEN <<15, 10>>
  ELSE IF node.region = Null THEN <<>>
  ELSE <<2>>

Init ==
  \E tree \in Trees, o0 \in Opts0, o1 \in Opts1, s \in Streams, spatial \in BOOLEAN :
    LET mk(i, o) == NodeCtor(NodeIds[i], "triangle", <<60, 60, 60>>, o,
                             [k \in 1..4 |-> MathRandom(s, i - 1, 0, k - 1)], 2 * i - 1, 2 * i)
        a == mk(1, o0)
        b == mk(2, o1)
    IN /\ regions = tree
       /\ nodes = <<a, b>>
       /\ arrays = NodeCtorArrays(NodeCtorArrays(<<>>, a), b)
       /\ next = <<>>
       /\ done = {}
       /\ gen = 0
       /\ steps = HistoryCap + ExtraSteps
       /\ pc = "run"
       /\ contribs = [i \in 1..2 |-> ContributionsOf(<<a, b>>[i])]
       /\ rng = [stream |-> s, spatial |-> spatial]
       /\ genStart = [regions |-> tree, arrays |-> NodeCtorArrays(NodeCtorArrays(<<>>, a), b)]
       /\ last = [op |-> "none"]

RECURSIVE SelectSeq2(_, _, _)
\* pop.filter(x => keep[index of x])
SelectSeq2(pop, keep, k) ==
  IF k > Len(pop) THEN <<>>
  ELSE (IF keep[k] THEN <<pop[k]>> ELSE <<>>) \o SelectSeq2(pop, keep, k + 1)

\* (a population that already holds the outputs of this generation)
PartlyUpdated(pop, nxt) == [k \in 1..Len(pop) |-> IF k \in DOMAIN nxt THEN nxt[k] ELSE pop[k]]

\* the population the context of a call is built from: the array nodes, which
\* map() leaves untouched until every callback has returned
Population(pop, nxt) == pop

\* the context the driver passes for node i (lines 251-259)
Context(pop, i, contributions, spatial) ==
  LET n == pop[i]
  IN [ neighbors |-> SelectSeq2(pop, [k \in 1..Len(pop) |->
                                   pop[k].region = n.region /\ pop[k].id # n.id], 1),
       spatialNeighbors |-> IF spatial
                              THEN <<SelectSeq2(pop, [k \in 1..Len(pop) |->
                                        vlen(vsub(n.pos, pop[k].pos)) < n.range], 1)>>
                              ELSE <<>>,
       regionObj |-> n.region,
       contributions |-> contributions,
       allNodes |-> pop ]

DrawsOf(i, g) ==
  [ jit |-> MathRandom(rng.stream, i - 1, g + 1, 0), fx |-> MathRandom(rng.stream, i - 1, g + 1, 1),
    fy |-> MathRandom(rng.stream, i - 1, g + 1, 2), chk |-> MathRandom(rng.stream, i - 1, g + 1, 3) ]

\* the node object with the arrays it refers to written out
Deep(n, arrs) == [ obj |-> n, incubationHistory |-> arrs[n.incubationHistory],
                   history |-> arrs[n.history] ]

\* one call evolveNode(n, {...}) of the map callback; a throw ends the program
Evolve(i) ==
  /\ pc = "run"
  /\ i \notin done
  /\ \E r \in {evolveNode(nodes[i], Context(Population(nodes, next), i, contribs[i], rng.spatial),
                            DrawsOf(i, gen), regions, arrays)} :
        /\ regions' = r.regions
        /\ arrays' = r.arrays
        /\ last' = [ op |-> "evolveNode", i |-> i, before |-> Deep(nodes[i], arrays),
                     threw |-> r.threw, horizon |-> r.horizon,
                     breakthrough |-> r.breakthrough, outside |-> r.outside,
                     velocity |-> r.velocity, health |-> r.health, ret |-> r.n ]
        /\ IF r.threw
             THEN /\ pc' = "crashed"
                  /\ UNCHANGED <<next, done>>
             ELSE /\ next' = next @@ (i :> r.n)
                  /\ done' = done \cup {i}
                  /\ pc' = pc
  /\ UNCHANGED <<nodes, gen, steps, contribs, rng, genStart>>

\* nodes = nodes.map(...) completes; step++ and the loop test
EndGeneration ==
  /\ pc = "run"
  /\ done = 1..Len(nodes)
  /\ nodes' = [k \in 1..Len(nodes) |-> next[k]]
  /\ next' = <<>>
  /\ done' = {}
  /\ gen' = gen + 1
  /\ pc' = IF gen + 1 < steps THEN "run" ELSE "done"
  /\ genStart' = [regions |-> regions, arrays |-> arrays]
  /\ last' = [op |-> "endGeneration"]
  /\ UNCHANGED <<regions, arrays, steps, contribs, rng>>

Next == (\E i \in 1..Len(nodes) : Evolve(i)) \/ EndGeneration

Spec == Init /\ [][Next]_vars

(* ---------------- the Region API on its own ---------------- *)
RegionOrder == <<"root", "1", "2", "3", "4">>
KappaParams == {Undefined, 120, 350}

InitRegion ==
  /\ regions = <<>>
  /\ arrays = <<>>
  /\ nodes = <<>>
  /\ next = <<>>
  /\ done = {}
  /\ gen = 0
  /\ steps = 0
  /\ pc = "regions"
  /\ contribs = <<>>
  /\ rng = <<>>
  /\ genStart = [regions |-> <<>>, arrays |-> <<>>]
  /\ last = [op |-> "none"]

NewRegion ==
  /\ pc = "regions"
  /\ Cardinality(DOMAIN regions) < MaxRegions
  /\ \E parent \in (DOMAIN regions) \cup {Null}, k \in KappaParams :
       LET id == RegionOrder[Cardinality(DOMAIN regions) + 1]
           params == [NoParams EXCEPT !.kappa = k]
       IN /\ regions' = RegionCtor(regions, id, parent, params)
          /\ last' = [op |-> "Region", id |-> id, parent |-> parent, params |-> params]
  /\ UNCHANGED <<arrays, nodes, next, done, gen, steps, pc, contribs, rng, genStart>>

CallEffectiveKappa ==
  /\ pc = "regions"
  /\ \E id \in DOMAIN regions, g \in 0..MaxG :
       last' = [op |-> "effectiveKappa", id |-> id, g |-> g,
                ret |-> effectiveKappa(regions, id, g)]
  /\ UNCHANGED <<regions, arrays, nodes, next, done, gen, steps, pc, contribs, rng, genStart>>

NextRegion == NewRegion \/ CallEffectiveKappa

SpecRegion == InitRegion /\ [][NextRegion]_vars

(* ---------------- claims about Region ---------------- *)
\* the chain self, parent, ..., root
RECURSIVE ChainOf(_, _)
ChainOf(arena, id) == IF id = Null THEN <<>> ELSE <<id>> \o ChainOf(arena, arena[id].parent)

\* the weight the claim gives a region: 0.88^max(0, g - generation), and, when
\* rootWeighsOne, 1 for the region without a parent
ChainWeight(arena, id, g, rootWeighsOne) ==
  IF rootWeighsOne /\ arena[id].parent = Null
    THEN 10000
    ELSE Pow88(Max2(0, g - arena[id].generation))

RECURSIVE WeightedSums(_, _, _, _)
WeightedSums(arena, chain, g, rootWeighsOne) ==
  IF chain = <<>> THEN <<0, 0>>
  ELSE LET rest == WeightedSums(arena, Tail(chain), g, rootWeighsOne)
           w == ChainWeight(arena, chain[1], g, rootWeighsOne)
           k == arena[chain[1]].kappa
       IN << IF IsNaN(k) \/ IsNaN(rest[1]) THEN NaN ELSE w * k + rest[1], w + rest[2] >>

\* the weighted mean of kappa over the chain of id
WeightedMean(arena, id, g, rootWeighsOne) ==
  LET s == WeightedSums(arena, ChainOf(arena, id), g, rootWeighsOne)
  IN IF IsNaN(s[1]) THEN NaN ELSE TDiv(s[1], s[2])

\* C6 (as claimed): a region constructed without a kappa parameter has kappa
\* 0.92 x its parent's kappa under a parent and 0.1 at the root, and in both
\* cases kappa is a number >= 0.
C6_DefaultKappaAsClaimed ==
  (last.op = "Region" /\ last.params.kappa = Undefined) =>
     LET r == regions[last.id]
     IN /\ ~IsNaN(r.kappa)
        /\ r.kappa >= 0
        /\ IF last.parent # Null
             THEN /\ ~IsNaN(regions[last.parent].kappa)
                  /\ r.kappa = TDiv(regions[last.parent].kappa * 92, 100)
             ELSE r.kappa = 100

\* C7 (as claimed): effectiveKappa(g) is the weighted mean of kappa over the
\* chain with weight 0.88^max(0, g - generation) for every region, the root
\* included.
C7_EveryWeightDecays ==
  last.op = "effectiveKappa" =>
     last.ret = WeightedMean(regions, last.id, last.g, FALSE)

\* C7 (amended): effectiveKappa(g) is the weighted mean of kappa over the chain
\* where a region that has a parent weighs 0.88^max(0, g - generation) and the
\* root weighs 1 whatever g is.
C7_RootWeighsOne ==
  last.op = "effectiveKappa" =>
     last.ret = WeightedMean(regions, last.id, last.g, TRUE)

\* a region of generation 1 was asked effectiveKappa(1), got a number, and the
\* all-decaying weights would have given another one
C7_Witness ==
  /\ last.op = "effectiveKappa"
  /\ regions[last.id].generation = 1
  /\ last.g = 1
  /\ ~IsNaN(last.ret)
  /\ last.ret # WeightedMean(regions, last.id, last.g, FALSE)

(* ---------------- claims about evolveNode and the driver ---------------- *)
\* the current state of the chain of node i: the output of this generation
\* once it exists, else the input
Cur(i) == IF i \in done THEN next[i] ELSE nodes[i]

\* the number of evolveNode calls made on the chain of node i
Calls(i) ==
  IF i \in done \/ (pc = "crashed" /\ last.op = "evolveNode" /\ last.i = i)
    THEN gen + 1 ELSE gen

\* C1 (as claimed): after evolveNode(node, ctx) every field of the input node,
\* the contents of its incubationHistory and of its history included, is what
\* it was before the call.
C1_InputNeverMutated ==
  last.op = "evolveNode" => Deep(nodes[last.i], arrays) = last.before

\* C2 (as claimed): evolveNode raises no error on any outcome of its random
\* draws, the checkpoint draw included.
C2_NeverThrows ==
  /\ pc # "crashed"
  /\ last.op = "evolveNode" => ~last.threw

\* C3 (as claimed): the state evolveNode returns for a node built by the
\* constructor with finite fields and mass > 0 has hue in [0,1), coherence in
\* [0,100], stagnation in [0,1], entropy in [0.1,1000], sandbox in [0.3,10] and
\* |pos| <= 500.
InDocumentedRanges(n) ==
  /\ 0 <= n.hue /\ n.hue < One
  /\ 0 <= n.coherence /\ n.coherence <= 100 * One
  /\ 0 <= n.stagnation /\ n.stagnation <= One
  /\ 100 <= n.entropy /\ n.entropy <= 1000 * One
  /\ 300 <= n.sandbox /\ n.sandbox <= 10 * One
  /\ vlen(n.pos) <= 500 * PosOne

C3_ReturnedStateInRanges ==
  (last.op = "evolveNode" /\ ~last.threw) => InDocumentedRanges(last.ret)

\* C4: along the chain of every node, once incubating is false it is false in
\* every later state.
C4_IncubationOneWay ==
  [][\A i \in 1..Len(nodes) : (~Cur(i).incubating) => (~Cur(i).incubating)']_vars

\* a node that is out of incubation has been evolved for a third generation
C4_Witness ==
  /\ gen >= 2
  /\ \E i \in done : ~nodes[i].incubating /\ ~next[i].incubating

\* C5: after k calls on the chain of a freshly constructed node its
\* incubationHistory has length min(k, 40), no incubationHistory is ever longer
\* than 40, and a call on a full buffer drops the oldest score and appends the
\* new health at the end.
C5_RollingBuffer ==
  /\ [](\A i \in 1..Len(nodes) :
          Len(arrays[Cur(i).incubationHistory]) = Min2(Calls(i), HistoryCap))
  /\ [][(last'.op = "evolveNode" /\ last' # last) =>
          LET ref == nodes[last'.i].incubationHistory
          IN arrays'[ref] = IF Len(arrays[ref]) >= HistoryCap
                              THEN Tail(arrays[ref]) \o <<last'.health>>
                              ELSE arrays[ref] \o <<last'.health>>]_vars

\* a call found the buffer full, and it holds 40 scores after it
C5_Witness ==
  /\ gen > HistoryCap
  /\ \E i \in done : /\ Len(arrays[next[i].incubationHistory]) = HistoryCap
                     /\ Len(last.before.incubationHistory) = HistoryCap

\* C8 (as claimed): no evolveNode call changes any field of a region.
C8_RegionsReadOnly == [][regions' = regions]_vars

\* C9: within a generation the output of every node is the one the step gives
\* on the frozen snapshot (the previous population, the regions and arrays as
\* the generation found them, the draws of that node), whatever calls of the
\* same generation ran before it.
C9_OrderIndependent ==
  \A i \in done :
     next[i] = evolveNode(nodes[i], Context(nodes, i, contribs[i], rng.spatial),
                          DrawsOf(i, gen), genStart.regions, genStart.arrays).n

\* node 1 was evolved after node 2 of the same region, whose call had rewritten
\* the meanTheta of that region
C9_Witness ==
  /\ done = {1, 2}
  /\ last.op = "evolveNode"
  /\ last.i = 1
  /\ nodes[1].region # Null
  /\ nodes[1].region = nodes[2].region
  /\ regions[nodes[1].region].meanTheta # genStart.regions[nodes[1].region].meanTheta

\* C10: in every evolveNode call velocity is 0, so learningRate and
\* growthPotential are 0 after it, stagnation rises by 0.05 up to 1, the guard
\* of the transition out of incubation is false, the horizon-pull branch is not
\* taken, and an incubating node stays incubating.
C10_NeverLeavesIncubation ==
  last.op = "evolveNode" =>
     /\ last.velocity = 0
     /\ last.ret.learningRate = 0
     /\ last.ret.growthPotential = 0
     /\ last.ret.stagnation = Min2(last.before.obj.stagnation + 50, One)
     /\ ~(last.ret.incubationScore > 850 /\ last.ret.growthPotential > One)
     /\ ~last.horizon
     /\ (last.before.obj.incubating => last.ret.incubating)

\* an incubating node whose incubationScore is above 0.85 and whose stagnation
\* has risen stays incubating
C10_Witness ==
  /\ last.op = "evolveNode"
  /\ last.before.obj.incubating
  /\ last.ret.incubating
  /\ last.ret.incubationScore > 850
  /\ last.ret.stagnation >= 100

====
